---- MODULE Spec2Model ----
(***************************************************************************)
(* Model of the Brave search tool of the research agent                    *)
(* (src/src/research_agent.py, search_web).  One invocation is split at    *)
(* its only suspension point, the awaited HTTP GET: Invoke runs the        *)
(* validation and issues the request, Respond / GetRaises run the rest of  *)
(* the coroutine on the HTTP layer's outcome, Proceed hands the returned   *)
(* list back to the agent framework, which may call the tool again.        *)
(***************************************************************************)
EXTENDS Integers, Sequences, FiniteSets, TLC

(***************************************************************************)
(* Bounds of the model.                                                    *)
(***************************************************************************)
\* max_results arguments range over (1 - Slack) .. (20 + Slack)
Slack == 2
\* the longest web.results list the HTTP layer sends
MaxHits == 21
\* the longest web.results list that ends in a hit that is not an object
MaxBadHits == 3

(***************************************************************************)
(* Python str values that the code inspects character by character (the    *)
(* query, the API key) are sequences of one-character strings.             *)
(***************************************************************************)
Whitespace == {" ", "\t"}

RECURSIVE lstrip(_)
lstrip(s) ==
    IF s # <<>> /\ Head(s) \in Whitespace THEN lstrip(Tail(s)) ELSE s

RECURSIVE rstrip(_)
rstrip(s) ==
    IF s # <<>> /\ s[Len(s)] \in Whitespace
    THEN rstrip(SubSeq(s, 1, Len(s) - 1))
    ELSE s

\* str.strip(): leading and trailing whitespace removed
strip(s) == rstrip(lstrip(s))

\* Python truthiness of a str
Truthy(s) == s # <<>>

(***************************************************************************)
(* Python floats: IEEE-754 binary64, round-half-to-even.  Every float the  *)
(* score computation meets is a multiple of 2^-57 below 2^3, so a float    *)
(* is kept as the exact integer count of 2^-57 units, in three limbs of    *)
(* 20 bits (least significant first), with a sign.                         *)
(***************************************************************************)
LimbBase == 2^20

\* carry propagation: limbs back into 0 .. LimbBase-1
Carry(m) ==
    LET c0 == m[1] \div LimbBase
        l1 == m[2] + c0
        c1 == l1 \div LimbBase
    IN  <<m[1] % LimbBase, l1 % LimbBase, m[3] + c1>>

MagLess(a, b) ==
    \/ a[3] < b[3]
    \/ a[3] = b[3] /\ a[2] < b[2]
    \/ a[3] = b[3] /\ a[2] = b[2] /\ a[1] < b[1]

\* a - b for magnitudes with b <= a (\div and % floor, so borrows carry)
MagSub(a, b) == Carry(<<a[1] - b[1], a[2] - b[2], a[3] - b[3]>>)

\* the spacing of binary64 values around magnitude m, in units of 2^-57:
\* 53 significant bits, so 2^k once the magnitude reaches 2^(52+k)
RECURSIVE UlpFrom(_, _)
UlpFrom(top, q) ==
    IF top < 2^13 THEN q ELSE UlpFrom(top \div 2, 2 * q)

Ulp(m) == UlpFrom(m[3], 1)

\* round an exact magnitude (m + rem/den units, 0 <= rem < den) to binary64
RoundMag(m, rem, den) ==
    LET q    == Ulp(m)
        r    == m[1] % q
        low  == <<m[1] - r, m[2], m[3]>>
        high == Carry(<<m[1] - r + q, m[2], m[3]>>)
        twice == 2 * (r * den + rem)
        even == ((m[1] - r) \div q) % 2 = 0
    IN  IF twice < q * den THEN low
        ELSE IF twice > q * den THEN high
        ELSE IF even THEN low ELSE high

\* the float a decimal literal c/100 denotes (1.0, 0.05, 0.1 in the source):
\* long division of c * 2^57 by 100, then rounding
Literal(c) ==
    LET n2 == c * 2^17
        q2 == n2 \div 100
        r2 == n2 % 100
        q1 == (r2 * LimbBase) \div 100
        r1 == (r2 * LimbBase) % 100
        q0 == (r1 * LimbBase) \div 100
        r0 == (r1 * LimbBase) % 100
    IN  [neg |-> FALSE, mag |-> RoundMag(<<q0, q1, q2>>, r0, 100)]

\* int * float: the int converts exactly, the exact product is rounded
FMul(i, x) ==
    [neg |-> x.neg,
     mag |-> RoundMag(Carry(<<i * x.mag[1], i * x.mag[2], i * x.mag[3]>>), 0, 1)]

\* float - float for non-negative operands: the exact difference, rounded
FSub(x, y) ==
    IF MagLess(x.mag, y.mag)
    THEN [neg |-> TRUE,  mag |-> RoundMag(MagSub(y.mag, x.mag), 0, 1)]
    ELSE [neg |-> FALSE, mag |-> RoundMag(MagSub(x.mag, y.mag), 0, 1)]

IsZero(x) == x.mag = <<0, 0, 0>>

\* x < y on floats
FLess(x, y) ==
    IF x.neg /\ ~y.neg THEN ~(IsZero(x) /\ IsZero(y))
    ELSE IF ~x.neg /\ y.neg THEN FALSE
    ELSE IF x.neg THEN MagLess(y.mag, x.mag)
    ELSE MagLess(x.mag, y.mag)

\* builtin max(a, b): b only when b > a
FMax(a, b) == IF FLess(a, b) THEN b ELSE a

(***************************************************************************)
(* JSON values as Python objects (what response.json() returns), tagged by *)
(* type.  A dict is a function from its keys.                              *)
(***************************************************************************)
JNull == [t |-> "null"]
JStr(s) == [t |-> "str", v |-> s]
JNum(n) == [t |-> "num", v |-> n]
JArr(s) == [t |-> "arr", v |-> s]
JObj(f) == [t |-> "obj", v |-> f]
EmptyDict == JObj([k \in {} |-> JNull])

\* type(x).__name__, as it appears in Python's error messages
TypeName(j) ==
    CASE j.t = "null" -> "NoneType"
      [] j.t = "str"  -> "str"
      [] j.t = "num"  -> "int"
      [] j.t = "arr"  -> "list"
      [] j.t = "obj"  -> "dict"

(***************************************************************************)
(* Exceptions: a class and a message (str(e)).  Bases gives the classes    *)
(* an exception of a class is an instance of.                              *)
(***************************************************************************)
Exc(cls, msg) == [cls |-> cls, msg |-> msg]

Bases(cls) ==
    CASE cls = "ConnectError"    -> {"ConnectError", "TransportError", "RequestError",
                                     "HTTPError", "Exception"}
      [] cls = "ReadTimeout"     -> {"ReadTimeout", "TimeoutException", "TransportError",
                                     "RequestError", "HTTPError", "Exception"}
      [] cls = "InvalidURL"      -> {"InvalidURL", "Exception"}
      [] cls = "JSONDecodeError" -> {"JSONDecodeError", "ValueError", "Exception"}
      [] cls = "AttributeError"  -> {"AttributeError", "Exception"}
      [] cls = "TypeError"       -> {"TypeError", "Exception"}
      [] cls = "KeyError"        -> {"KeyError", "LookupError", "Exception"}
      [] cls = "ValueError"      -> {"ValueError", "Exception"}
      [] cls = "ValidationError" -> {"ValidationError", "ValueError", "Exception"}
      [] cls = "EOFError"        -> {"EOFError", "Exception"}
      [] cls = "UnicodeEncodeError" -> {"UnicodeEncodeError", "UnicodeError",
                                        "ValueError", "Exception"}
      [] cls = "KeyboardInterrupt" -> {"KeyboardInterrupt", "BaseException"}
      [] cls = "BrokenPipeError" -> {"BrokenPipeError", "ConnectionError", "OSError",
                                     "Exception"}
      [] cls = "ModelHTTPError"  -> {"ModelHTTPError", "AgentRunError", "RuntimeError",
                                     "Exception"}
      [] cls = "Exception"       -> {"Exception"}

IsInstance(e, cls) == cls \in Bases(e.cls)

\* the ways a block of the coroutine ends
Return(v) == [t |-> "return", v |-> v]
Raise(e) == [t |-> "raise", exc |-> e]
NoAttribute(j, name) ==
    Exc("AttributeError",
        "'" \o TypeName(j) \o "' object has no attribute '" \o name \o "'")

\* subscription j[key] instead of j.get(key, default)
GetStrict(j, key, default) ==
    IF j.t = "obj"
    THEN IF key \in DOMAIN j.v THEN Return(j.v[key])
         ELSE Raise(Exc("KeyError", "'" \o key \o "'"))
    ELSE Raise(NoAttribute(j, "get"))

\* dict.get(key, default); any other object has no attribute get
Get(j, key, default) ==
    IF j.t = "obj"
    THEN Return(IF key \in DOMAIN j.v THEN j.v[key] ELSE default)
    ELSE Raise(NoAttribute(j, "get"))

\* the items a for loop over the object visits: a list's elements, a dict's
\* keys; None and numbers are not iterable
RECURSIVE KeySeq(_)
KeySeq(ks) ==
    IF ks = {} THEN <<>>
    ELSE LET k == CHOOSE x \in ks : TRUE IN <<JStr(k)>> \o KeySeq(ks \ {k})

Iterate(j) ==
    CASE j.t = "arr" -> Return(j.v)
      [] j.t = "obj" -> Return(KeySeq(DOMAIN j.v))
      [] j.t \in {"null", "num"} ->
            Raise(Exc("TypeError", "'" \o TypeName(j) \o "' object is not iterable"))

(***************************************************************************)
(* search_web, the part before the awaited GET                             *)
(***************************************************************************)
NoDeps == [t |-> "none"]
ResearchAgentDependencies(key) ==
    [t |-> "deps", brave_api_key |-> key, session_id |-> "research_session"]

ErrorItem(msg) == [error |-> msg]

PyMax(a, b) == IF b > a THEN b ELSE a
PyMin(a, b) == IF b < a THEN b ELSE a

SearchUrl == "https://api.search.brave.com/res/v1/web/search"

\* line 69: the query is empty, or nothing but whitespace
QueryIsEmptyAsTyped(query) == ~Truthy(query)
QueryIsEmpty(query) == ~Truthy(query) \/ ~Truthy(strip(query))

\* line 73: max_results brought into 1 .. 20
ClampMaxResultsAbove(max_results) == PyMin(max_results, 20)
ClampMaxResults(max_results) == PyMin(PyMax(max_results, 1), 20)

\* line 75: the API key is empty, or nothing but whitespace
KeyIsMissingAsTyped(key) == ~Truthy(key)
KeyIsMissing(key) == ~Truthy(key) \/ ~Truthy(strip(key))

\* lines 69-93: ends in a return, a raise, or the GET it issues
Validate(d, query, max_results) ==
    IF QueryIsEmpty(query)
    THEN Return(<<ErrorItem("Query cannot be empty")>>)
    ELSE LET clamped == ClampMaxResults(max_results) IN
         IF d.t = "none"
         THEN Raise(NoAttribute(JNull, "brave_api_key"))
         ELSE IF KeyIsMissing(d.brave_api_key)
         THEN Return(<<ErrorItem("Brave API key is required")>>)
         ELSE [t |-> "get",
               request |->
                 [url |-> SearchUrl,
                  headers |-> [X_Subscription_Token |-> d.brave_api_key,
                               Accept |-> "application/json"],
                  params |-> [q |-> query, count |-> ToString(clamped)],
                  timeout |-> 30]]

(***************************************************************************)
(* search_web, the part after the GET                                      *)
(***************************************************************************)
\* lines 120-121: the relevance score of the hit at zero-based position idx
ScoreOneBased(idx) == FMax(FSub(Literal(100), FMul(idx + 1, Literal(5))), Literal(10))
ScoreFlooredAtZero(idx) == FMax(FSub(Literal(100), FMul(idx, Literal(5))), Literal(0))
Score(idx) == FMax(FSub(Literal(100), FMul(idx, Literal(5))), Literal(10))

\* lines 117-130: the loop over enumerate(web_results), from position idx on
RECURSIVE ConvertNewestFirst(_, _, _)
ConvertNewestFirst(web_results, idx, results) ==
    IF idx >= Len(web_results) THEN Return(results)
    ELSE LET result == web_results[idx + 1]
             title == Get(result, "title", JStr(""))
             url == Get(result, "url", JStr(""))
             description == Get(result, "description", JStr(""))
         IN  IF title.t = "raise" THEN title
             ELSE ConvertNewestFirst(web_results, idx + 1,
                          <<[title |-> title.v, url |-> url.v,
                             description |-> description.v,
                             score |-> Score(idx)]>>
                          \o results)

\* a hit that cannot be read is reported in place, after the hits before it
RECURSIVE ConvertKeepingPartial(_, _, _)
ConvertKeepingPartial(web_results, idx, results) ==
    IF idx >= Len(web_results) THEN Return(results)
    ELSE LET result == web_results[idx + 1]
             title == Get(result, "title", JStr(""))
             url == Get(result, "url", JStr(""))
             description == Get(result, "description", JStr(""))
         IN  IF title.t = "raise"
             THEN Return(Append(results,
                                ErrorItem("Search failed: " \o title.exc.msg)))
             ELSE ConvertKeepingPartial(web_results, idx + 1,
                          Append(results,
                                 [title |-> title.v, url |-> url.v,
                                  description |-> description.v,
                                  score |-> Score(idx)]))

RECURSIVE Convert(_, _, _)
Convert(web_results, idx, results) ==
    IF idx >= Len(web_results) THEN Return(results)
    ELSE LET result == web_results[idx + 1]
             score == Score(idx)
             title == Get(result, "title", JStr(""))
             url == Get(result, "url", JStr(""))
             description == Get(result, "description", JStr(""))
         IN  IF title.t = "raise" THEN title
             ELSE Convert(web_results, idx + 1,
                          Append(results,
                                 [title |-> title.v, url |-> url.v,
                                  description |-> description.v, score |-> score]))

\* a null under "web" or "results" read as if the key were absent
NormalizeLenient(json) ==
    IF json.t = "raise" THEN json
    ELSE LET web == Get(json.v, "web", EmptyDict) IN
         IF web.t = "raise" THEN web
         ELSE LET w == IF web.v.t = "null" THEN EmptyDict ELSE web.v
                  web_results == Get(w, "results", JArr(<<>>)) IN
              IF web_results.t = "raise" THEN web_results
              ELSE LET items == Iterate(IF web_results.v.t = "null"
                                        THEN JArr(<<>>) ELSE web_results.v) IN
                   IF items.t = "raise" THEN items
                   ELSE Convert(items.v, 0, <<>>)

\* lines 111-133: the 200 path, given what response.json() does
Normalize(json) ==
    IF json.t = "raise" THEN json
    ELSE LET web == Get(json.v, "web", EmptyDict) IN
         IF web.t = "raise" THEN web
         ELSE LET web_results == Get(web.v, "results", JArr(<<>>)) IN
              IF web_results.t = "raise" THEN web_results
              ELSE LET items == Iterate(web_results.v) IN
                   IF items.t = "raise" THEN items
                   ELSE Convert(items.v, 0, <<>>)

\* lines 95-133: how the block ends, and how often response.json() ran
ClassifyClientErrors(response) ==
    IF response.status_code = 429
    THEN [end |-> Return(<<ErrorItem("Rate limit exceeded. Check your Brave API quota.")>>),
          json_calls |-> 0]
    ELSE IF response.status_code = 401
    THEN [end |-> Return(<<ErrorItem("Invalid Brave API key")>>), json_calls |-> 0]
    ELSE IF response.status_code >= 400
    THEN [end |-> Return(<<ErrorItem("Brave API returned "
                                     \o ToString(response.status_code)
                                     \o ": " \o response.text)>>),
          json_calls |-> 0]
    ELSE [end |-> Normalize(response.json), json_calls |-> 1]

Classify(response) ==
    IF response.status_code = 429
    THEN [end |-> Return(<<ErrorItem("Rate limit exceeded. Check your Brave API quota.")>>),
          json_calls |-> 0]
    ELSE IF response.status_code = 401
    THEN [end |-> Return(<<ErrorItem("Invalid Brave API key")>>), json_calls |-> 0]
    ELSE IF response.status_code # 200
    THEN [end |-> Return(<<ErrorItem("Brave API returned "
                                     \o ToString(response.status_code)
                                     \o ": " \o response.text)>>),
          json_calls |-> 0]
    ELSE [end |-> Normalize(response.json), json_calls |-> 1]

\* lines 135-140: the except clauses of the try statement, in order
ExceptRequestErrorOnly(end) ==
    IF end.t # "raise" THEN end
    ELSE IF IsInstance(end.exc, "RequestError")
    THEN Return(<<ErrorItem("Request failed: " \o end.exc.msg)>>)
    ELSE end

ExceptToNoResults(end) ==
    IF end.t # "raise" THEN end
    ELSE IF IsInstance(end.exc, "RequestError")
    THEN Return(<<ErrorItem("Request failed: " \o end.exc.msg)>>)
    ELSE Return(<<>>)

\* the two except clauses in the other order
ExceptGenericFirst(end) ==
    IF end.t # "raise" THEN end
    ELSE IF IsInstance(end.exc, "Exception")
    THEN Return(<<ErrorItem("Search failed: " \o end.exc.msg)>>)
    ELSE IF IsInstance(end.exc, "RequestError")
    THEN Return(<<ErrorItem("Request failed: " \o end.exc.msg)>>)
    ELSE end

Except(end) ==
    IF end.t # "raise" THEN end
    ELSE IF IsInstance(end.exc, "RequestError")
    THEN Return(<<ErrorItem("Request failed: " \o end.exc.msg)>>)
    ELSE IF IsInstance(end.exc, "Exception")
    THEN Return(<<ErrorItem("Search failed: " \o end.exc.msg)>>)
    ELSE end

(***************************************************************************)
(* The inputs: the tool's arguments, the dependencies, the HTTP layer.     *)
(***************************************************************************)
Queries ==
    {<<>>, <<" ">>, <<"\t", " ">>,
     <<"a">>, <<" ", "a">>, <<"a", "\t">>, <<" ", "a", " ", "b", " ">>}

ApiKeys == {<<>>, <<" ">>, <<"k">>, <<" ", "k", "\t">>}

DepsValues == {NoDeps} \cup {ResearchAgentDependencies(k) : k \in ApiKeys}

MaxResultsValues == (1 - Slack) .. (20 + Slack)

\* raw hits: the three of the test fixture, one with a score of its own,
\* one without a description, one with no field at all
HitPool ==
    << JObj([title |-> JStr("Python Programming Tutorial"),
             url |-> JStr("https://example.com/python-tutorial"),
             description |-> JStr("Learn Python programming from basics to advanced topics.")]),
       JObj([title |-> JStr("Python Documentation"),
             url |-> JStr("https://docs.python.org/3/"),
             description |-> JStr("Official Python documentation and reference.")]),
       JObj([title |-> JStr("Real Python"),
             url |-> JStr("https://realpython.com/"),
             description |-> JStr("Real Python tutorials and articles for Python developers.")]),
       JObj([title |-> JStr("Scored"), url |-> JStr("https://example.com/scored"),
             description |-> JNull, score |-> JNum(7)]),
       JObj([title |-> JStr("No description"), url |-> JStr("https://example.com/bare")]),
       EmptyDict >>

\* n hits, taken from the pool in turn starting at offset o
HitList(n, o) == [i \in 1 .. n |-> HitPool[((i - 1 + o) % Len(HitPool)) + 1]]

\* n hits of which the last is not an object
BadHitList(n) == [i \in 1 .. n |-> IF i = n THEN JStr("oops") ELSE HitPool[i]]

SearchBody(hits) == JObj([web |-> JObj([results |-> JArr(hits)])])

JsonValues ==
    {JNull, JArr(<<>>), EmptyDict,
     JObj([web |-> JNull]), JObj([web |-> JArr(<<>>)]), JObj([web |-> EmptyDict]),
     JObj([web |-> JObj([results |-> JNull])]),
     JObj([web |-> JObj([results |-> EmptyDict])])}
    \cup {SearchBody(HitList(n, o)) : n \in 0 .. MaxHits, o \in {0, 3}}
    \cup {SearchBody(BadHitList(n)) : n \in 1 .. MaxBadHits}

\* the text of a JSON value (json.dumps without spaces)
RECURSIVE Render(_)
RECURSIVE RenderItems(_)
RECURSIVE RenderMembers(_, _)
Render(j) ==
    CASE j.t = "null" -> "null"
      [] j.t = "str"  -> "\"" \o j.v \o "\""
      [] j.t = "num"  -> ToString(j.v)
      [] j.t = "arr"  -> "[" \o RenderItems(j.v) \o "]"
      [] j.t = "obj"  -> "{" \o RenderMembers(j.v, KeySeq(DOMAIN j.v)) \o "}"
RenderItems(s) ==
    IF s = <<>> THEN ""
    ELSE Render(Head(s)) \o (IF Len(s) > 1 THEN "," ELSE "") \o RenderItems(Tail(s))
RenderMembers(f, ks) ==
    IF ks = <<>> THEN ""
    ELSE Render(Head(ks)) \o ":" \o Render(f[Head(ks).v])
         \o (IF Len(ks) > 1 THEN "," ELSE "") \o RenderMembers(f, Tail(ks))

\* a response body: its text and what response.json() does with it
Bodies ==
    {[text |-> Render(j), json |-> Return(j)] : j \in JsonValues}
    \cup {[text |-> txt,
           json |-> Raise(Exc("JSONDecodeError",
                              "Expecting value: line 1 column 1 (char 0)"))]
          : txt \in {"", "<html>Bad Gateway</html>"}}

StatusCodes == {200, 201, 401, 429, 500}

Responses ==
    {[status_code |-> c, text |-> b.text, json |-> b.json] : c \in StatusCodes, b \in Bodies}

\* what client.get raises instead of returning a response
GetExceptions ==
    {Exc("ConnectError", "All connection attempts failed"),
     Exc("ReadTimeout", ""),
     Exc("InvalidURL", "Invalid non-printable ASCII character in URL"),
     Exc("Exception", "Network connection failed")}

(***************************************************************************)
(* The state machine                                                       *)
(***************************************************************************)
VARIABLES
    deps,        \* ctx.deps, built once per run
    pc,          \* "idle", "awaiting" (the GET is in flight), "returned", "raised"
    args,        \* the arguments of the invocation in progress
    request,     \* the GET issued by the invocation
    gets,        \* the number of GETs the invocation has issued
    response,    \* what the HTTP layer answered
    json_calls,  \* the number of response.json() calls of the invocation
    ret,         \* how the invocation ended: the returned list or the exception
    prev,        \* an earlier invocation of the run, kept for comparison
    env,         \* os.environ (with the .env file) when the process starts
    environ,     \* os.environ now
    env_settings, \* how Settings(_env_file=".env") ended at import
    settings,    \* the module global src.settings.settings
    main_pc,     \* where main() of run_research.py stands
    main_query,  \* the line input() returned to main()
    main_exc,    \* the exception raised inside the try statement of main()
    stdout,      \* what main() wrote to standard output, call by call
    agent_runs,  \* the number of research_agent.run_sync calls of main()
    main_ret     \* how main() ended

search_vars == <<deps, pc, args, request, gets, response, json_calls, ret>>
cli_vars == <<env, environ, env_settings, settings, main_pc, main_query, main_exc,
              stdout, agent_runs, main_ret>>
vars == <<search_vars, prev, cli_vars>>

None == [t |-> "none"]

\* the command line program is not part of the run
NoCli ==
    /\ env = None
    /\ environ = None
    /\ env_settings = None
    /\ settings = None
    /\ main_pc = "none"
    /\ main_query = None
    /\ main_exc = None
    /\ stdout = <<>>
    /\ agent_runs = 0
    /\ main_ret = None

Init ==
    /\ NoCli
    /\ prev = None
    /\ deps \in DepsValues
    /\ pc = "idle"
    /\ args = None
    /\ request = None
    /\ gets = 0
    /\ response = None
    /\ json_calls = 0
    /\ ret = None

\* how an invocation ends: by returning a value or by raising past search_web
Finish(end) ==
    /\ ret' = end
    /\ pc' = IF end.t = "return" THEN "returned" ELSE "raised"

\* the agent framework calls the tool: lines 67-93, up to the awaited GET
Invoke(query, max_results) ==
    /\ pc = "idle"
    /\ args' = [t |-> "args", query |-> query, max_results |-> max_results]
    /\ LET v == Validate(deps, query, max_results) IN
       IF v.t = "get"
       THEN /\ request' = v.request
            /\ gets' = gets + 1
            /\ pc' = "awaiting"
            /\ ret' = None
       ELSE /\ Finish(Except(v))
            /\ UNCHANGED <<request, gets>>
    /\ UNCHANGED <<deps, response, json_calls, prev, cli_vars>>

\* the results collected in a list that outlives the invocation
RespondAccumulating(r) ==
    /\ pc = "awaiting"
    /\ response' = [t |-> "response", status_code |-> r.status_code,
                    text |-> r.text, json |-> r.json]
    /\ LET c == Classify(r)
           end == Except(c.end) IN
       /\ json_calls' = json_calls + c.json_calls
       /\ Finish(IF prev # None /\ prev.ret.t = "return" /\ end.t = "return"
                 THEN Return(prev.ret.v \o end.v)
                 ELSE end)
    /\ UNCHANGED <<deps, args, request, gets, prev, cli_vars>>

\* a rate-limited request is sent once more
RespondRetrying(r) ==
    /\ pc = "awaiting"
    /\ response' = [t |-> "response", status_code |-> r.status_code,
                    text |-> r.text, json |-> r.json]
    /\ IF r.status_code = 429 /\ gets < 2
       THEN /\ gets' = gets + 1
            /\ UNCHANGED <<pc, ret, json_calls>>
       ELSE /\ LET c == Classify(r) IN
                 /\ json_calls' = json_calls + c.json_calls
                 /\ Finish(Except(c.end))
            /\ UNCHANGED gets
    /\ UNCHANGED <<deps, args, request, prev, cli_vars>>

\* the GET returns a response: lines 95-133, and the except clauses
Respond(r) ==
    /\ pc = "awaiting"
    /\ response' = [t |-> "response", status_code |-> r.status_code,
                    text |-> r.text, json |-> r.json]
    /\ LET c == Classify(r) IN
         /\ json_calls' = json_calls + c.json_calls
         /\ Finish(Except(c.end))
    /\ UNCHANGED <<deps, args, request, gets, prev, cli_vars>>

\* the GET raises: the except clauses
GetRaises(e) ==
    /\ pc = "awaiting"
    /\ response' = Raise(e)
    /\ Finish(Except(Raise(e)))
    /\ UNCHANGED <<deps, args, request, gets, json_calls, prev, cli_vars>>

\* the coroutine is over and its locals are gone; ctx.deps lives on
Handoff ==
    /\ pc \in {"returned", "raised"}
    /\ pc' = "idle"
    /\ args' = None
    /\ request' = None
    /\ gets' = 0
    /\ response' = None
    /\ json_calls' = 0
    /\ ret' = None
    /\ UNCHANGED <<deps, cli_vars>>

\* the framework takes the outcome; the next tool call starts afresh
Proceed == Handoff /\ UNCHANGED prev

\* the same step, with the invocation that ended kept for comparison
Remember ==
    /\ Handoff
    /\ prev' = [t |-> "call", args |-> args, deps |-> deps,
                response |-> response, ret |-> ret]

Next ==
    \/ \E query \in Queries, max_results \in MaxResultsValues : Invoke(query, max_results)
    \/ \E r \in Responses : Respond(r)
    \/ \E e \in GetExceptions : GetRaises(e)
    \/ Proceed

Spec == Init /\ [][Next]_vars

(***************************************************************************)
(* Sequences of invocations, one of the earlier ones kept for comparison   *)
(* with the current one                                                    *)
(***************************************************************************)
PairQueries == {<<>>, <<"a">>, <<" ", "a">>}
PairMaxResults == {0, 5}
PairResponses ==
    {[status_code |-> c, text |-> Render(j), json |-> Return(j)]
       : c \in {200, 429},
         j \in {EmptyDict, SearchBody(HitList(2, 0)), SearchBody(BadHitList(2))}}
PairExceptions == {Exc("ConnectError", "All connection attempts failed"),
                   Exc("Exception", "Network connection failed")}

PairNext ==
    \/ \E query \in PairQueries, max_results \in PairMaxResults :
           Invoke(query, max_results)
    \/ \E r \in PairResponses : Respond(r)
    \/ \E e \in PairExceptions : GetRaises(e)
    \/ Proceed
    \/ Remember

PairSpec == Init /\ [][PairNext]_vars

(***************************************************************************)
(* src/settings.py: the Settings class and the module global settings      *)
(***************************************************************************)
\* a variable of the environment, or an argument of Settings(...): not
\* given, or given with a value
EnvUnset == [t |-> "unset"]
EnvSet(v) == [t |-> "set", v |-> v]

TestKey == <<"t", "e", "s", "t", "_", "k", "e", "y">>

\* the validator without its whitespace test
validate_api_keys_falsy(v) ==
    IF ~Truthy(v)
    THEN Raise(Exc("ValueError", "API key cannot be empty"))
    ELSE Return(v)

\* lines 32-38
validate_api_keys(v) ==
    IF ~Truthy(v) \/ strip(v) = <<>>
    THEN Raise(Exc("ValueError", "API key cannot be empty"))
    ELSE Return(v)

\* the entries a required, validated field adds to pydantic's ValidationError
FieldErrors(loc, x) ==
    IF x.t = "unset"
    THEN <<[loc |-> loc, type |-> "missing", msg |-> "Field required"]>>
    ELSE LET r == validate_api_keys(x.v) IN
         IF r.t = "raise"
         THEN <<[loc |-> loc, type |-> "value_error",
                 msg |-> "Value error, " \o r.exc.msg]>>
         ELSE <<>>

\* lines 17-38: Settings built from a value for each of the two required
\* fields, the optional fields at their defaults
Settings(llm_api_key, brave_api_key) ==
    LET errors == FieldErrors("llm_api_key", llm_api_key)
                  \o FieldErrors("brave_api_key", brave_api_key) IN
    IF errors # <<>>
    THEN Raise([cls |-> "ValidationError",
                msg |-> ToString(Len(errors)) \o " validation error"
                        \o (IF Len(errors) > 1 THEN "s" ELSE "") \o " for Settings",
                errors |-> errors])
    ELSE Return([llm_api_key |-> validate_api_keys(llm_api_key.v).v,
                 llm_model |-> "gpt-4",
                 llm_base_url |-> "https://api.openai.com/v1",
                 brave_api_key |-> validate_api_keys(brave_api_key.v).v])

\* os.environ.setdefault(name, value)
SetDefault(e, name, value) ==
    IF e[name].t = "unset" THEN [e EXCEPT ![name] = EnvSet(value)] ELSE e

\* lines 41-51: the module body, run when src.settings is imported
LoadSettings ==
    /\ main_pc = "import"
    /\ LET first == Settings(environ.LLM_API_KEY, environ.BRAVE_API_KEY) IN
       /\ env_settings' = first
       /\ IF first.t = "return"
          THEN /\ settings' = first.v
               /\ main_pc' = "main"
               /\ UNCHANGED environ
          ELSE IF IsInstance(first.exc, "Exception")
          THEN LET second == Settings(EnvSet(TestKey), EnvSet(TestKey)) IN
               /\ environ' = SetDefault(SetDefault(environ, "LLM_API_KEY", TestKey),
                                        "BRAVE_API_KEY", TestKey)
               /\ IF second.t = "return"
                  THEN settings' = second.v /\ main_pc' = "main"
                  ELSE settings' = None /\ main_pc' = "import_failed"
          ELSE /\ settings' = None
               /\ main_pc' = "import_failed"
               /\ UNCHANGED environ
    /\ UNCHANGED <<search_vars, prev, env, main_query, main_exc, stdout,
                   agent_runs, main_ret>>

(***************************************************************************)
(* run_research.py: main()                                                 *)
(***************************************************************************)
\* the three pictographs of the messages, written by their code points
Magnifier == "<U+1F50D>"
BarChart == "<U+1F4CA>"
CrossMark == "<U+274C>"

\* s * n
RECURSIVE Repeat(_, _)
Repeat(s, n) == IF n = 0 THEN "" ELSE s \o Repeat(s, n - 1)

\* the str of a sequence of characters
RECURSIVE Text(_)
Text(s) == IF s = <<>> THEN "" ELSE Head(s) \o Text(Tail(s))

\* lines 43-47
ErrorLines(e) ==
    <<"\n" \o CrossMark \o " Error: " \o e.msg,
      "\nTips:",
      "- Make sure you have added your API keys to the .env file",
      "- Check that you have internet connection",
      "- Verify your Brave API key is valid">>

\* the handler printing the error only
MainExceptWithoutTips(e, out) ==
    /\ main_exc' = e
    /\ main_pc' = "done"
    /\ IF IsInstance(e, "Exception")
       THEN stdout' = out \o <<Head(ErrorLines(e))>> /\ main_ret' = Return(None)
       ELSE stdout' = out /\ main_ret' = Raise(e)

\* lines 42-47: e was raised inside the try statement after out was written
MainExcept(e, out) ==
    /\ main_exc' = e
    /\ main_pc' = "done"
    /\ IF IsInstance(e, "Exception")
       THEN stdout' = out \o ErrorLines(e) /\ main_ret' = Return(None)
       ELSE stdout' = out /\ main_ret' = Raise(e)

\* lines 13-24: the banner, the dependencies, the prompt of input()
MainStart ==
    /\ main_pc = "main"
    /\ stdout' = <<Magnifier \o " Simple Research Agent", Repeat("=", 40),
                   "\nWhat would you like to research? ">>
    /\ deps' = ResearchAgentDependencies(settings.brave_api_key)
    /\ main_pc' = "input"
    /\ UNCHANGED <<pc, args, request, gets, response, json_calls, ret, prev,
                   env, environ, env_settings, settings, main_query, main_exc,
                   agent_runs, main_ret>>

\* lines 24-34: input() returns the line the user entered
InputReturns(query) ==
    /\ main_pc = "input"
    /\ main_query' = Return(query)
    /\ IF ~Truthy(strip(query))
       THEN /\ stdout' = Append(stdout, "Please enter a valid research query.")
            /\ main_ret' = Return(None)
            /\ main_pc' = "done"
            /\ UNCHANGED agent_runs
       ELSE /\ stdout' = stdout \o <<"\n" \o Magnifier \o " Researching: " \o Text(query),
                                     "Please wait...">>
            /\ agent_runs' = agent_runs + 1
            /\ main_pc' = "running"
            /\ UNCHANGED main_ret
    /\ UNCHANGED <<search_vars, prev, env, environ, env_settings, settings, main_exc>>

\* line 24: input() raises (end of input, Ctrl-C)
InputRaises(e) ==
    /\ main_pc = "input"
    /\ MainExcept(e, stdout)
    /\ UNCHANGED <<search_vars, prev, env, environ, env_settings, settings,
                   main_query, agent_runs>>

\* lines 34-40: run_sync returns a result whose output is printed
AgentReturns(output) ==
    /\ main_pc = "running"
    /\ pc = "idle"
    /\ LET head == stdout \o <<"\n" \o Repeat("=", 60),
                               BarChart \o " RESEARCH RESULTS:",
                               Repeat("=", 60)>> IN
       IF output.encodable
       THEN /\ stdout' = head \o <<output.text, Repeat("=", 60)>>
            /\ main_ret' = Return(None)
            /\ main_pc' = "done"
            /\ UNCHANGED main_exc
       ELSE MainExcept(Exc("UnicodeEncodeError",
                           "'utf-8' codec can't encode character '\\udc80' in position 0: surrogates not allowed"),
                       head)
    /\ UNCHANGED <<search_vars, prev, env, environ, env_settings, settings,
                   main_query, agent_runs>>

\* line 34: run_sync raises
AgentRaises(e) ==
    /\ main_pc = "running"
    /\ pc = "idle"
    /\ MainExcept(e, stdout)
    /\ UNCHANGED <<search_vars, prev, env, environ, env_settings, settings,
                   main_query, agent_runs>>

\* the environment at process start: each key unset, empty, blank or given
EnvValues ==
    {[LLM_API_KEY |-> l, BRAVE_API_KEY |-> b]
       : l \in {EnvUnset, EnvSet(<<>>), EnvSet(<<"\t">>), EnvSet(<<"s", "k">>)},
         b \in {EnvUnset} \cup {EnvSet(k) : k \in ApiKeys}}

\* what the user enters at the prompt
CliQueries == {<<>>, <<" ", "\t">>, <<"a">>, <<" ", "a", " ">>}

InputExceptions == {Exc("EOFError", "EOF when reading a line"),
                    Exc("KeyboardInterrupt", "")}

\* result.output of a finished run: a text, or one that standard output
\* cannot encode
AgentOutputs ==
    {[text |-> "Python is a programming language.", encodable |-> TRUE],
     [text |-> "", encodable |-> TRUE],
     [text |-> "\\udc80", encodable |-> FALSE]}

AgentExceptions ==
    {Exc("ModelHTTPError", "status_code: 401, model_name: gpt-4, body: invalid api key"),
     Exc("KeyboardInterrupt", "")}

CliInit ==
    /\ env \in EnvValues
    /\ environ = env
    /\ env_settings = None
    /\ settings = None
    /\ main_pc = "import"
    /\ main_query = None
    /\ main_exc = None
    /\ stdout = <<>>
    /\ agent_runs = 0
    /\ main_ret = None
    /\ prev = None
    /\ deps = NoDeps
    /\ pc = "idle"
    /\ args = None
    /\ request = None
    /\ gets = 0
    /\ response = None
    /\ json_calls = 0
    /\ ret = None

\* the agent calls its tool while run_sync is in progress
AgentSearches ==
    /\ main_pc = "running"
    /\ \/ \E query \in PairQueries, max_results \in PairMaxResults :
             Invoke(query, max_results)
       \/ \E r \in PairResponses : Respond(r)
       \/ \E e \in PairExceptions : GetRaises(e)
       \/ Proceed

CliNext ==
    \/ LoadSettings
    \/ MainStart
    \/ \E query \in CliQueries : InputReturns(query)
    \/ \E e \in InputExceptions : InputRaises(e)
    \/ AgentSearches
    \/ \E output \in AgentOutputs : AgentReturns(output)
    \/ \E e \in AgentExceptions : AgentRaises(e)

CliSpec == CliInit /\ [][CliNext]_vars

(***************************************************************************)
(* Vocabulary of the properties                                            *)
(***************************************************************************)
\* the string is empty or consists only of whitespace
Blank(s) == \A i \in 1 .. Len(s) : s[i] \in Whitespace

\* an invocation is in progress or has ended
Invoked == pc # "idle"

\* the list returned is exactly [{"error": msg}]
ReturnedError(msg) == pc = "returned" /\ ret = Return(<<[error |-> msg]>>)

\* the invocation received a response with this status
GotStatus(code) == response.t = "response" /\ response.status_code = code

(***************************************************************************)
(* C1.  search_web never raises past its boundary: whatever the query,     *)
(* max_results, the dependencies and the HTTP layer do (any status, any    *)
(* body, an exception from the GET or from the JSON parsing), an           *)
(* invocation that ends, ends by returning a list.                         *)
(***************************************************************************)
C1_NeverRaises == pc # "raised" /\ ret.t # "raise"

\* the GET raised an exception that is no httpx.RequestError, and the
\* invocation returned
C1_Witness ==
    /\ pc = "returned"
    /\ response.t = "raise"
    /\ ~IsInstance(response.exc, "RequestError")
    /\ ret.t = "return"

(***************************************************************************)
(* C2.  A query that is empty or whitespace-only, with any max_results     *)
(* and any API key, returns exactly [{"error": "Query cannot be empty"}]   *)
(* and no GET is issued.                                                   *)
(***************************************************************************)
C2_EmptyQuery ==
    (Invoked /\ Blank(args.query))
        => /\ ReturnedError("Query cannot be empty")
           /\ gets = 0
           /\ request = None

\* a whitespace-only query met an empty API key
C2_Witness ==
    /\ pc = "returned"
    /\ args.query # <<>>
    /\ Blank(args.query)
    /\ deps.t = "deps"
    /\ deps.brave_api_key = <<>>
    /\ ret = Return(<<[error |-> "Query cannot be empty"]>>)

(***************************************************************************)
(* C3.  As stated: for every non-empty query, an empty or whitespace-only  *)
(* API key returns exactly [{"error": "Brave API key is required"}] and    *)
(* no GET is issued.                                                       *)
(***************************************************************************)
C3_AsStated ==
    (Invoked /\ args.query # <<>> /\ deps.t = "deps" /\ Blank(deps.brave_api_key))
        => /\ ReturnedError("Brave API key is required")
           /\ gets = 0
           /\ request = None

(***************************************************************************)
(* C3, amended.  For every query that is neither empty nor whitespace-only,*)
(* an empty or whitespace-only API key returns exactly                     *)
(* [{"error": "Brave API key is required"}] and no GET is issued.          *)
(***************************************************************************)
C3_EmptyApiKey ==
    (Invoked /\ ~Blank(args.query) /\ deps.t = "deps" /\ Blank(deps.brave_api_key))
        => /\ ReturnedError("Brave API key is required")
           /\ gets = 0
           /\ request = None

\* a query with text met a whitespace-only API key
C3_Witness ==
    /\ pc = "returned"
    /\ ~Blank(args.query)
    /\ deps.t = "deps"
    /\ deps.brave_api_key # <<>>
    /\ Blank(deps.brave_api_key)
    /\ ret = Return(<<[error |-> "Brave API key is required"]>>)

(***************************************************************************)
(* C4.  The count parameter of every request issued is max_results         *)
(* brought to the nearest value of 1 .. 20: below 1 it is 1, above 20 it   *)
(* is 20, otherwise it is max_results; no request carries a count outside  *)
(* 1 .. 20.                                                                *)
(***************************************************************************)
C4_CountClamped ==
    (Invoked /\ request # None)
        => /\ request.params.count =
                ToString(IF args.max_results < 1 THEN 1
                         ELSE IF args.max_results > 20 THEN 20
                         ELSE args.max_results)
           /\ \E c \in 1 .. 20 : request.params.count = ToString(c)

\* a request went out for a max_results below 1
C4_Witness ==
    /\ pc = "awaiting"
    /\ args.max_results < 1
    /\ request # None
    /\ request.params.count = "1"

(***************************************************************************)
(* C5.  A response is classified by its status alone: 429 gives the rate   *)
(* limit error, 401 the invalid key error, every other status but 200 the  *)
(* error "Brave API returned <status>: <body>", and the body is parsed     *)
(* for status 200 only.                                                    *)
(***************************************************************************)
C5_StatusClassification ==
    (pc \in {"returned", "raised"} /\ response.t = "response")
        => /\ GotStatus(429)
                => ReturnedError("Rate limit exceeded. Check your Brave API quota.")
           /\ GotStatus(401) => ReturnedError("Invalid Brave API key")
           /\ response.status_code \notin {429, 401, 200}
                => ReturnedError("Brave API returned "
                                 \o ToString(response.status_code)
                                 \o ": " \o response.text)
           /\ json_calls = (IF response.status_code = 200 THEN 1 ELSE 0)

\* a 201 whose body is no JSON was answered with the generic API error
C5_Witness ==
    /\ GotStatus(201)
    /\ response.json.t = "raise"
    /\ ReturnedError("Brave API returned 201: <html>Bad Gateway</html>")
    /\ json_calls = 0

\* the invocation returned the normalized hits of a 200 response
SuccessPath ==
    /\ pc = "returned"
    /\ GotStatus(200)
    /\ \A i \in 1 .. Len(ret.v) : "error" \notin DOMAIN ret.v[i]

\* the hits of the response's web.results list (none when there is no list)
RawHits ==
    IF response.t = "response" /\ response.json.t = "return"
    THEN LET j == response.json.v IN
         IF /\ j.t = "obj" /\ "web" \in DOMAIN j.v
            /\ j.v.web.t = "obj" /\ "results" \in DOMAIN j.v.web.v
            /\ j.v.web.v.results.t = "arr"
         THEN j.v.web.v.results.v
         ELSE <<>>
    ELSE <<>>

\* the scores of the returned items, in order
Scores == [i \in 1 .. Len(ret.v) |-> ret.v[i].score]

(***************************************************************************)
(* C6.  On the success path the item at zero-based rank i has the score    *)
(* max(1.0 - i*0.05, 0.1), whatever the payload holds; ranks 0, 1, 2 have  *)
(* the scores 1.0, 0.95, 0.90.                                             *)
(***************************************************************************)
C6_ScoreByRank ==
    SuccessPath =>
        \A i \in 1 .. Len(ret.v) :
            /\ LET raw == FSub(Literal(100), FMul(i - 1, Literal(5)))
               IN  Scores[i] = IF FLess(raw, Literal(10)) THEN Literal(10) ELSE raw
            /\ i = 1 => Scores[i] = Literal(100)
            /\ i = 2 => Scores[i] = Literal(95)
            /\ i = 3 => Scores[i] = Literal(90)

\* the hit at rank 3 carries a score of its own and got the score of its rank
C6_Witness ==
    /\ SuccessPath
    /\ Len(ret.v) >= 4
    /\ "score" \in DOMAIN RawHits[4].v
    /\ Scores[3] = Literal(90)
    /\ Scores[4] = FSub(Literal(100), FMul(3, Literal(5)))

\* the exact difference between two adjacent scores, in units of 2^-57
StepBetween(i) == MagSub(Scores[i].mag, Scores[i + 1].mag)

\* what C7 says of every list but the size of the step
ScoresShape ==
    /\ Len(ret.v) > 0 => Scores[1] = Literal(100)
    /\ \A i \in 1 .. Len(ret.v) - 1 : ~FLess(Scores[i], Scores[i + 1])
    /\ \A i \in 1 .. Len(ret.v) :
          /\ ~Scores[i].neg
          /\ ~FLess(Scores[i], Literal(10))
          /\ ~FLess(Literal(100), Scores[i])
          /\ i - 1 >= 18 => Scores[i] = Literal(10)

(***************************************************************************)
(* C7.  As stated: in every successful list the first score is 1.0, no     *)
(* score exceeds the one before it, adjacent scores differ by exactly 0.05 *)
(* until the floor is reached, every score lies in 0.1 .. 1.0, and every   *)
(* rank from 18 on has the score 0.1.                                      *)
(***************************************************************************)
C7_AsStated ==
    SuccessPath =>
        /\ ScoresShape
        /\ \A i \in 1 .. Len(ret.v) - 1 :
              i <= 18 => StepBetween(i) = Literal(5).mag

\* 2^-53 in units of 2^-57
StepTolerance == 2^4

(***************************************************************************)
(* C7, amended.  In every successful list the first score is 1.0, no score *)
(* exceeds the one before it, adjacent scores differ by 0.05 to within     *)
(* 2^-53 (the rounding of the float arithmetic) until the floor is         *)
(* reached, every score lies in 0.1 .. 1.0, and every rank from 18 on has  *)
(* the score 0.1.                                                          *)
(***************************************************************************)
C7_ScoreLadder ==
    SuccessPath =>
        /\ ScoresShape
        /\ \A i \in 1 .. Len(ret.v) - 1 :
              i <= 18 =>
                  LET step == StepBetween(i)
                      nominal == Literal(5).mag
                      off == IF MagLess(step, nominal) THEN MagSub(nominal, step)
                             ELSE MagSub(step, nominal)
                  IN  off[3] = 0 /\ off[2] = 0 /\ off[1] < StepTolerance

\* a list that runs past the floor: rank 7 is not the float 0.65
C7_Witness ==
    /\ SuccessPath
    /\ Len(ret.v) > 19
    /\ Scores[8] # Literal(65)
    /\ Scores[20] = Literal(10)

C9_ResultCount ==
    (SuccessPath /\ args.max_results \in 1 .. 20)
        => Len(ret.v) = (IF args.max_results < Len(RawHits)
                         THEN args.max_results ELSE Len(RawHits))

(***************************************************************************)
(* C10.  As stated: the list search_web returns is never empty.            *)
(***************************************************************************)
C10_AsStated == pc = "returned" => Len(ret.v) >= 1

\* the item is a search result with a score in 0.1 .. 1.0
IsResultItem(item) ==
    /\ DOMAIN item = {"title", "url", "description", "score"}
    /\ ~item.score.neg
    /\ ~FLess(item.score, Literal(10))
    /\ ~FLess(Literal(100), item.score)

(***************************************************************************)
(* C10, amended.  The list search_web returns is either the single error   *)
(* item or a list of search results; it has at least one item, unless a    *)
(* 200 response is normalized without an error and carries no hit: then it *)
(* is empty.                                                               *)
(***************************************************************************)
C10_ResponseShape ==
    pc = "returned" =>
        /\ \/ Len(ret.v) = 1 /\ DOMAIN ret.v[1] = {"error"}
           \/ \A i \in 1 .. Len(ret.v) : IsResultItem(ret.v[i])
        /\ Len(ret.v) = 0 <=> (SuccessPath /\ RawHits = <<>>)

\* a 200 response whose body is {} was answered with the empty list
C10_Witness ==
    /\ pc = "returned"
    /\ GotStatus(200)
    /\ response.json = Return(EmptyDict)
    /\ ret = Return(<<>>)

\* the invocation went past the validation of its query and API key
PassedValidation ==
    /\ Invoked
    /\ ~Blank(args.query)
    /\ deps.t = "deps"
    /\ ~Blank(deps.brave_api_key)

(***************************************************************************)
(* C11.  An invocation that passes validation issues exactly one GET and   *)
(* returns only once the GET has ended in a response or a failure; no      *)
(* invocation issues a second GET, whatever the first one ended in.        *)
(***************************************************************************)
C11_SingleGet ==
    /\ gets <= 1
    /\ PassedValidation
         => /\ gets = 1
            /\ request # None
            /\ pc = "awaiting" => (response = None /\ ret = None)
            /\ pc \in {"returned", "raised"} => response.t \in {"response", "raise"}
    /\ (Invoked /\ ~PassedValidation) => (gets = 0 /\ response = None)

\* a rate-limited request ended the invocation after its one GET
C11_Witness ==
    /\ PassedValidation
    /\ pc = "returned"
    /\ GotStatus(429)
    /\ gets = 1

\* the classes of httpx that derive from httpx.RequestError
TransportFailures == {"ConnectError", "ReadTimeout"}

(***************************************************************************)
(* C12.  A failure of the GET is reported by kind: an httpx.RequestError   *)
(* (connection error, timeout) gives exactly                               *)
(* [{"error": "Request failed: <detail>"}], any other exception exactly    *)
(* [{"error": "Search failed: <detail>"}], and so does a failure of        *)
(* response.json().                                                        *)
(***************************************************************************)
C12_FailureKinds ==
    /\ (pc \in {"returned", "raised"} /\ response.t = "raise")
         => IF response.exc.cls \in TransportFailures
            THEN ReturnedError("Request failed: " \o response.exc.msg)
            ELSE ReturnedError("Search failed: " \o response.exc.msg)
    /\ (pc \in {"returned", "raised"} /\ GotStatus(200) /\ response.json.t = "raise")
         => ReturnedError("Search failed: " \o response.json.exc.msg)

\* a timeout without a message was reported as a failed request
C12_Witness ==
    /\ pc = "returned"
    /\ response.t = "raise"
    /\ response.exc.cls = "ReadTimeout"
    /\ ret = Return(<<[error |-> "Request failed: "]>>)

\* the invocation failed: it issued no GET, the GET raised, the status was
\* not 200, or the body was no JSON
FailureMode ==
    /\ pc = "returned"
    /\ \/ gets = 0
       \/ response.t = "raise"
       \/ response.t = "response" /\ response.status_code # 200
       \/ response.t = "response" /\ response.json.t = "raise"

(***************************************************************************)
(* C13.  In every returned list either every item has exactly the keys     *)
(* title, url, description and score, or the list is one item with exactly *)
(* the key error; the two kinds are never mixed, and every failure gives   *)
(* the one-item kind.                                                      *)
(***************************************************************************)
C13_ErrorOrResults ==
    pc = "returned" =>
        /\ LET errors == {i \in 1 .. Len(ret.v) : "error" \in DOMAIN ret.v[i]} IN
           IF errors = {}
           THEN \A i \in 1 .. Len(ret.v) :
                    DOMAIN ret.v[i] = {"title", "url", "description", "score"}
           ELSE Len(ret.v) = 1 /\ DOMAIN ret.v[1] = {"error"}
        /\ FailureMode => (Len(ret.v) = 1 /\ DOMAIN ret.v[1] = {"error"})

\* two good hits followed by one that is no object: one error item came back
C13_Witness ==
    /\ pc = "returned"
    /\ GotStatus(200)
    /\ response.json = Return(SearchBody(BadHitList(3)))
    /\ Len(ret.v) = 1
    /\ DOMAIN ret.v[1] = {"error"}

\* the settings module has been imported, or its import has failed
SettingsLoaded == main_pc \notin {"none", "import"}

\* at process start a required key is missing or empty
RequiredKeyAbsent ==
    \E name \in {"LLM_API_KEY", "BRAVE_API_KEY"} :
        env[name] \in {EnvUnset, EnvSet(<<>>)}

(***************************************************************************)
(* C14.  Loading the configuration is fatal at startup when a required key *)
(* is absent: with LLM_API_KEY or BRAVE_API_KEY missing or empty when the  *)
(* process starts, the import of the settings module fails and leaves no   *)
(* usable settings value.                                                  *)
(***************************************************************************)
C14_FatalWithoutKeys ==
    (SettingsLoaded /\ RequiredKeyAbsent)
        => (main_pc = "import_failed" /\ settings = None)

\* the body is an object without "web", or its "web" is an object without
\* "results"
LacksHitList ==
    /\ response.t = "response"
    /\ response.json.t = "return"
    /\ LET j == response.json.v IN
       /\ j.t = "obj"
       /\ \/ "web" \notin DOMAIN j.v
          \/ j.v.web.t = "obj" /\ "results" \notin DOMAIN j.v.web.v

\* the body carries a list of hits, each of them an object
HitsAreObjects ==
    /\ response.t = "response"
    /\ response.json.t = "return"
    /\ LET j == response.json.v IN
       /\ j.t = "obj" /\ "web" \in DOMAIN j.v
       /\ j.v.web.t = "obj" /\ "results" \in DOMAIN j.v.web.v
       /\ j.v.web.v.results.t = "arr"
       /\ \A i \in 1 .. Len(j.v.web.v.results.v) : j.v.web.v.results.v[i].t = "obj"

(***************************************************************************)
(* C15.  A 200 response with missing fields gives no error: a body object  *)
(* without "web", or with a "web" object without "results", gives the      *)
(* empty list; a hit without title, url or description is still emitted,   *)
(* at its position and with the score of its rank, the missing field       *)
(* being the empty string.                                                 *)
(***************************************************************************)
C15_MissingFields ==
    /\ (pc = "returned" /\ GotStatus(200) /\ LacksHitList) => ret = Return(<<>>)
    /\ (pc = "returned" /\ GotStatus(200) /\ HitsAreObjects)
         => /\ Len(ret.v) = Len(RawHits)
            /\ \A i \in 1 .. Len(RawHits) :
                  /\ DOMAIN ret.v[i] = {"title", "url", "description", "score"}
                  /\ ret.v[i].score = Score(i - 1)
                  /\ \A f \in {"title", "url", "description"} \ DOMAIN RawHits[i].v :
                        ret.v[i][f] = JStr("")

\* a hit with no field at all came back at rank 5 with three empty strings
C15_Witness ==
    /\ pc = "returned"
    /\ GotStatus(200)
    /\ Len(RawHits) >= 6
    /\ RawHits[6] = EmptyDict
    /\ ret.v[6] = [title |-> JStr(""), url |-> JStr(""), description |-> JStr(""),
                   score |-> Score(5)]

(***************************************************************************)
(* C16.  The query and the API key are trimmed before use: whenever a      *)
(* request is made, its q parameter is the query without leading and       *)
(* trailing whitespace and its X-Subscription-Token header is the key      *)
(* without leading and trailing whitespace.                                *)
(***************************************************************************)
C16_TrimmedBeforeUse ==
    request # None =>
        /\ request.params.q = strip(args.query)
        /\ request.headers.X_Subscription_Token = strip(deps.brave_api_key)

\* the current invocation has ended and had the inputs of the remembered one:
\* query, max_results, API key and the outcome of the GET
SameInputsAsBefore ==
    /\ prev # None
    /\ pc \in {"returned", "raised"}
    /\ args = prev.args
    /\ deps = prev.deps
    /\ response = prev.response

KeyFields == [llm_api_key |-> "LLM_API_KEY", brave_api_key |-> "BRAVE_API_KEY"]

(***************************************************************************)
(* C18.  The Settings validator accepts an API key only if it is non-empty *)
(* after trimming: building Settings with llm_api_key or brave_api_key     *)
(* empty or whitespace-only is rejected, the rejection carrying the error  *)
(* "API key cannot be empty" for that field; when both keys are given and  *)
(* neither is blank the build succeeds and stores each key as given,       *)
(* untrimmed.                                                              *)
(***************************************************************************)
C18_ValidatorRejectsBlank ==
    SettingsLoaded =>
        /\ \A f \in DOMAIN KeyFields :
              (env[KeyFields[f]].t = "set" /\ Blank(env[KeyFields[f]].v))
                 => /\ env_settings.t = "raise"
                    /\ env_settings.exc.cls = "ValidationError"
                    /\ \E i \in 1 .. Len(env_settings.exc.errors) :
                          /\ env_settings.exc.errors[i].loc = f
                          /\ env_settings.exc.errors[i].msg
                               = "Value error, API key cannot be empty"
        /\ (\A f \in DOMAIN KeyFields :
               env[KeyFields[f]].t = "set" /\ ~Blank(env[KeyFields[f]].v))
              => /\ env_settings.t = "return"
                 /\ \A f \in DOMAIN KeyFields :
                       env_settings.v[f] = env[KeyFields[f]].v

\* a whitespace-only LLM key was rejected although the Brave key was good
C18_Witness ==
    /\ SettingsLoaded
    /\ env.LLM_API_KEY = EnvSet(<<"\t">>)
    /\ env.BRAVE_API_KEY = EnvSet(<<"k">>)
    /\ env_settings.t = "raise"
    /\ Len(env_settings.exc.errors) = 1

\* main() has ended after an exception was raised inside its try statement
MainEndedOnException == main_pc = "done" /\ main_exc # None

\* the last n of the writes to standard output
LastLines(n) ==
    IF Len(stdout) < n THEN <<>>
    ELSE SubSeq(stdout, Len(stdout) - n + 1, Len(stdout))

\* the line was entered at the prompt and is empty or whitespace-only
EnteredBlank == main_query.t = "return" /\ Blank(main_query.v)

\* the request for a valid query ended main() before any run of the agent
BlankQueryHandled ==
    (main_pc = "done" /\ EnteredBlank)
        => /\ agent_runs = 0
           /\ main_exc = None
           /\ main_ret = Return(None)
           /\ LastLines(1) = <<"Please enter a valid research query.">>

\* C19 as stated: whatever is raised in the run, main() reports it and
\* returns normally
C19_AsStated ==
    /\ MainEndedOnException
         => /\ main_ret = Return(None)
            /\ LastLines(5) = ErrorLines(main_exc)
    /\ BlankQueryHandled

(***************************************************************************)
(* C19.  main() catches every exception deriving from Exception that is    *)
(* raised inside its try statement (end of input at the prompt, a failure  *)
(* of the agent run, a failure to print the output), prints the error      *)
(* followed by the troubleshooting tips and returns normally; a            *)
(* KeyboardInterrupt is not caught and leaves main() with nothing printed  *)
(* for it.  A query that is empty or whitespace-only gets the request for  *)
(* a valid query, and main() returns without running the agent.            *)
(***************************************************************************)
C19_MainCatches ==
    /\ MainEndedOnException
         => IF IsInstance(main_exc, "Exception")
            THEN /\ main_ret = Return(None)
                 /\ LastLines(5) = ErrorLines(main_exc)
            ELSE /\ main_ret = Raise(main_exc)
                 /\ \A i \in 1 .. Len(stdout) : stdout[i] # "\nTips:"
    /\ BlankQueryHandled
    /\ agent_runs > 0 => (main_query.t = "return" /\ ~Blank(main_query.v))

\* a failed agent run was reported with the tips and main() returned
C19_Witness ==
    /\ MainEndedOnException
    /\ main_exc.cls = "ModelHTTPError"
    /\ agent_runs = 1
    /\ main_ret = Return(None)
    /\ Len(stdout) = 10

\* the body of a 200 response is malformed: no JSON, not an object, a null
\* under "web" or "web.results", or a hit that is not an object
MalformedBody ==
    /\ response.t = "response"
    /\ \/ response.json.t = "raise"
       \/ LET j == response.json.v IN
          \/ j.t # "obj"
          \/ /\ "web" \in DOMAIN j.v
             /\ \/ j.v.web.t = "null"
                \/ /\ j.v.web.t = "obj"
                   /\ "results" \in DOMAIN j.v.web.v
                   /\ LET rs == j.v.web.v.results IN
                      \/ rs.t = "null"
                      \/ rs.t = "arr" /\ \E i \in 1 .. Len(rs.v) : rs.v[i].t # "obj"

\* what Python says of each such body
MalformedDetails ==
    {"Expecting value: line 1 column 1 (char 0)",
     "'NoneType' object has no attribute 'get'",
     "'list' object has no attribute 'get'",
     "'str' object has no attribute 'get'",
     "'NoneType' object is not iterable"}

(***************************************************************************)
(* C20.  A 200 response with a malformed body (no JSON, not an object, a   *)
(* null "web" or "web.results", a hit that is not an object) is reported   *)
(* as [{"error": "Search failed: <detail>"}]: one item, and none of the    *)
(* hits normalized before the failure.                                     *)
(***************************************************************************)
C20_MalformedBody ==
    (pc = "returned" /\ GotStatus(200) /\ MalformedBody)
        => /\ Len(ret.v) = 1
           /\ DOMAIN ret.v[1] = {"error"}
           /\ \E d \in MalformedDetails : ret.v[1].error = "Search failed: " \o d

\* a null under "web" was reported as a failure, not as no results
C20_Witness ==
    /\ pc = "returned"
    /\ GotStatus(200)
    /\ response.json = Return(JObj([web |-> JNull]))
    /\ ret = Return(<<[error |-> "Search failed: 'NoneType' object has no attribute 'get'"]>>)

====
